---------------------------- MODULE Spec2Model ----------------------------
(* A model of the subscriptions API: the Domain Service (validation, cache  *)
(* aside reads, patch merge), the Cache Layer (Redis keys holding the JSON  *)
(* encoding of a subscription) and the Storage Engine (the subscriptions    *)
(* table and the queries run against it).                                   *)
EXTENDS Integers, FiniteSets, Sequences, TLC

(***************************************************************************)
(* Bounds of the model.                                                    *)
(***************************************************************************)
\* the SERIAL sequence of ids is used up to MaxId
MaxId == 2
\* dates range over MaxMonth consecutive months
MaxMonth == 1
\* prices range over 0..MaxPrice
MaxPrice == 1
\* a patch payload carries at most MaxPatchFields fields besides the id
MaxPatchFields == 1
\* the clock runs from 1 to MaxTime
MaxTime == 2
\* a request in flight has at most MaxWork steps left to take
MaxWork == 3

(***************************************************************************)
(* Values.                                                                 *)
(***************************************************************************)
NilUUID == "00000000-0000-0000-0000-000000000000"
UserUUIDs == {"60601fee-2bf1-4721-ae6f-7636e79a0cba"}
UUIDs == UserUUIDs \cup {NilUUID}

ServiceNames == {"Yandex Plus", "Netflix"}
Names == ServiceNames \cup {""}

Prices == 0..MaxPrice

\* an instant of month granularity: the number of months since year 0
MonthOf(year, month) == year * 12 + (month - 1)
Months == {MonthOf(2025, 6) + k : k \in 1..MaxMonth}
\* Go's zero time.Time (January of year 1)
ZeroTime == MonthOf(1, 1)

\* sql.NullTime as embedded by CustomDate
NullDate == [Valid |-> FALSE, Time |-> ZeroTime]
DateOf(t) == [Valid |-> TRUE, Time |-> t]
CustomDates == {NullDate} \cup {DateOf(t) : t \in Months}

\* the ids a request may carry: negative, zero, assigned or not yet assigned
IDs == (-1)..MaxId

ErrNil == "nil"
ErrConflict == "Conflict"
ErrNotFound == "Not Found"
ErrInternalServer == "Internal Server Error"
ErrBadRequest == "Bad request"

\* a panic of the handler's goroutine (nil pointer dereference), which
\* gin's Recovery answers with status 500
ErrPanic == "panic: nil pointer dereference"

\* an error of the database driver returned as it is, wrapping none of the
\* errors above
ErrDriver == "pq: LIMIT must not be negative"
ErrClosed == "sql: database is closed"

\* sql.NullTime as embedded by CustomTime; an instant is a tick of the clock
NullTime == [Valid |-> FALSE, Time |-> 0]
TimeOf(t) == [Valid |-> TRUE, Time |-> t]

\* a Subscription as a request body carries it: created_at and updated_at
\* are zero until the storage engine stamps them
Subscription(id, name, price, uuid, start, end) ==
    [id |-> id, service_name |-> name, price |-> price, user_uuid |-> uuid,
     start_date |-> start, end_date |-> end,
     created_at |-> NullTime, updated_at |-> NullTime]

\* the zero value models.Subscription{}
ZeroSubscription == Subscription(0, "", 0, NilUUID, NullDate, NullDate)

SubscriptionIdentifier(id, uuid, name) ==
    [id |-> id, user_uuid |-> uuid, service_name |-> name]

ZeroIdentifier == SubscriptionIdentifier(0, NilUUID, "")

(***************************************************************************)
(* State.                                                                  *)
(***************************************************************************)
VARIABLES
    store,      \* the rows of the subscriptions table
    nextId,     \* the next value of the SERIAL sequence
    cache,      \* the Redis keys and their data
    last,       \* the request being answered: its input and its outcome
    created,    \* the last successful Create, while no mutation followed it
    deleted,    \* the rows deleted so far, and how their natural key was reused
    procs,      \* the requests in flight when requests run concurrently
    now,        \* the clock time.Now() reads
    redisUp,    \* whether the Redis server answers the client's commands
    service,    \* the *Service that NewService returned to NewHandler
    wire,       \* a value on its way through encoding/json and back
    process     \* the process: its servers, its connections, its shutdown

vars == <<store, nextId, cache, last, created, deleted, procs, now, redisUp,
          service, wire, process>>

\* what surrounds the requests: the clock, the Redis server, the Service,
\* the encoder and the process
env == <<now, redisUp, service, wire, process>>

(***************************************************************************)
(* CustomDate and the JSON encoding of a Subscription.                     *)
(***************************************************************************)
\* time.Format("01-2006"): the text MM-YYYY
FormatMonthYear(t) == [mm |-> (t % 12) + 1, yyyy |-> t \div 12]

\* time.Parse("01-2006", s)
ParseMonthYear(s) == MonthOf(s.yyyy, s.mm)

\* a JSON value standing for a date: null, a string MM-YYYY, or an object
JsonNull == [kind |-> "null", text |-> FormatMonthYear(ZeroTime), Time |-> ZeroTime, Valid |-> FALSE]
JsonString(s) == [kind |-> "string", text |-> s, Time |-> ZeroTime, Valid |-> FALSE]
JsonObject(cd) == [kind |-> "object", text |-> FormatMonthYear(ZeroTime), Time |-> cd.Time, Valid |-> cd.Valid]

\* (cd *CustomDate) MarshalJSON
CustomDateMarshalJSON(cd) ==
    IF cd.Valid THEN JsonString(FormatMonthYear(cd.Time)) ELSE JsonNull

\* (cd *CustomDate) UnmarshalJSON: null unsets the date, a string is parsed
\* as MM-YYYY, anything else fails in time.Parse
CustomDateUnmarshalJSON(b) ==
    IF b.kind = "null" THEN [err |-> ErrNil, date |-> NullDate]
    ELSE IF b.kind = "string"
         THEN [err |-> ErrNil, date |-> DateOf(ParseMonthYear(b.text))]
         ELSE [err |-> ErrInternalServer, date |-> NullDate]

\* encoding/json on a CustomDate field: MarshalJSON has a pointer receiver,
\* so it is called only for an addressable value; otherwise the struct is
\* encoded field by field ({"Time": ..., "Valid": ...})
JsonEncodeCustomDate(cd, addressable) ==
    IF addressable THEN CustomDateMarshalJSON(cd) ELSE JsonObject(cd)

\* JsonMarshalSubscription with its dates encoded by MarshalJSON
JsonMarshalSubscriptionByPointer(sub) ==
    [id |-> sub.id, service_name |-> sub.service_name, price |-> sub.price,
     user_uuid |-> sub.user_uuid,
     start_date |-> JsonEncodeCustomDate(sub.start_date, TRUE),
     end_date |-> JsonEncodeCustomDate(sub.end_date, TRUE),
     created_at |-> sub.created_at, updated_at |-> sub.updated_at]

\* json.Marshal(subscription) as SetSubscription calls it: the subscription
\* is passed by value, so none of its fields is addressable
JsonMarshalSubscription(sub) ==
    [id |-> sub.id, service_name |-> sub.service_name, price |-> sub.price,
     user_uuid |-> sub.user_uuid,
     start_date |-> JsonEncodeCustomDate(sub.start_date, FALSE),
     end_date |-> JsonEncodeCustomDate(sub.end_date, FALSE),
     created_at |-> sub.created_at, updated_at |-> sub.updated_at]

\* json.Unmarshal(data, &subscription): the first field that fails to
\* decode ends the decoding with its error
JsonUnmarshalSubscription(data) ==
    LET s == CustomDateUnmarshalJSON(data.start_date)
        e == CustomDateUnmarshalJSON(data.end_date)
    IN  IF s.err # ErrNil
        THEN [err |-> s.err,
              sub |-> Subscription(data.id, data.service_name, data.price,
                                   data.user_uuid, NullDate, NullDate)]
        ELSE IF e.err # ErrNil
        THEN [err |-> e.err,
              sub |-> Subscription(data.id, data.service_name, data.price,
                                   data.user_uuid, s.date, NullDate)]
        ELSE [err |-> ErrNil,
              sub |-> [Subscription(data.id, data.service_name, data.price,
                                    data.user_uuid, s.date, e.date)
                       EXCEPT !.created_at = data.created_at,
                              !.updated_at = data.updated_at]]

\* the dates of a subscription on their way through encoding/json: the
\* subscription, how it is encoded ("date": each date through the methods of
\* *CustomDate, "subscription": json.Marshal of the Subscription as a whole),
\* the JSON data and what decoding it gave
Wire(phase, mode, sub, json, back) ==
    [phase |-> phase, mode |-> mode, sub |-> sub, json |-> json, back |-> back]

NoJson == [start_date |-> JsonNull, end_date |-> JsonNull]
NoBack == [err |-> ErrNil, start_date |-> NullDate, end_date |-> NullDate]
NoWire == Wire("none", "none", ZeroSubscription, NoJson, NoBack)

\* the encoding of the dates of sub
WireEncode(mode, sub) ==
    IF mode = "date"
    THEN [start_date |-> CustomDateMarshalJSON(sub.start_date),
          end_date |-> CustomDateMarshalJSON(sub.end_date)]
    ELSE JsonMarshalSubscription(sub)

\* the decoding of what WireEncode gave
WireDecode(mode, json) ==
    IF mode = "date"
    THEN LET s == CustomDateUnmarshalJSON(json.start_date)
             e == CustomDateUnmarshalJSON(json.end_date)
         IN  [err |-> IF s.err # ErrNil THEN s.err ELSE e.err,
              start_date |-> s.date, end_date |-> e.date]
    ELSE LET d == JsonUnmarshalSubscription(json)
         IN  [err |-> d.err, start_date |-> d.sub.start_date,
              end_date |-> d.sub.end_date]

(***************************************************************************)
(* Cache Layer: a map from Redis keys to the JSON data stored under them.  *)
(***************************************************************************)
\* c.subID(id): "sub:%d"
subID(id) == [kind |-> "id", id |-> id, user_uuid |-> NilUUID, service_name |-> ""]

\* c.subUserAndService(userUUID, serviceName): "sub:%s:%s"
subUserAndService(uuid, name) ==
    [kind |-> "natural", id |-> 0, user_uuid |-> uuid, service_name |-> name]

\* client.Set(key, data, ttl)
RedisSet(ch, key, data) ==
    [k \in DOMAIN ch \cup {key} |-> IF k = key THEN data ELSE ch[k]]

\* client.Del(key)
RedisDel(ch, key) == [k \in DOMAIN ch \ {key} |-> ch[k]]

\* Cache.SetSubscription: one entry, under the id key; a command that Redis
\* does not answer returns an error and writes nothing
CacheSetSubscription(ch, sub) ==
    IF redisUp
    THEN RedisSet(ch, subID(sub.id), JsonMarshalSubscription(sub))
    ELSE ch

\* Cache.GetSubscription: (nil, nil) on a miss, else the decoded entry with
\* the decoding's error; (nil, err) when Redis does not answer
CacheGetSubscription(ch, identifier) ==
    LET key == IF identifier.id > 0
               THEN subID(identifier.id)
               ELSE subUserAndService(identifier.user_uuid, identifier.service_name)
    IN  IF ~redisUp
        THEN [found |-> FALSE, err |-> ErrInternalServer, sub |-> ZeroSubscription]
        ELSE IF key \notin DOMAIN ch
        THEN [found |-> FALSE, err |-> ErrNil, sub |-> ZeroSubscription]
        ELSE LET u == JsonUnmarshalSubscription(ch[key])
             IN  [found |-> TRUE, err |-> u.err, sub |-> u.sub]

\* Cache.DeleteSubscription: the id key and the natural key of the identifier
CacheDeleteSubscription(ch, identifier) ==
    IF redisUp
    THEN RedisDel(RedisDel(ch, subID(identifier.id)),
                  subUserAndService(identifier.user_uuid, identifier.service_name))
    ELSE ch

(***************************************************************************)
(* Storage Engine: the rows of the subscriptions table and the SERIAL      *)
(* sequence of their ids.  A row has the fields of a Subscription.         *)
(***************************************************************************)
\* the WHERE clause of Database.Read
ReadWhere(r, identifier) ==
    /\ (identifier.id <= 0 \/ r.id = identifier.id)
    /\ (identifier.user_uuid = NilUUID \/ r.user_uuid = identifier.user_uuid)
    /\ (identifier.service_name = "" \/ r.service_name = identifier.service_name)

\* the *sql.DB answers queries until db.Close()
DatabaseOpen == process.db = "open"

\* Database.Read: QueryRow scans the first row the query yields; the query
\* has no ORDER BY, so any row that matches may be the one returned; an
\* error other than sql.ErrNoRows is an internal server error
DatabaseRead(st, identifier) ==
    LET rows == {r \in st : ReadWhere(r, identifier)}
    IN  IF ~DatabaseOpen
        THEN {[err |-> ErrInternalServer, sub |-> ZeroSubscription]}
        ELSE IF rows = {}
        THEN {[err |-> ErrNotFound, sub |-> ZeroSubscription]}
        ELSE {[err |-> ErrNil, sub |-> r] : r \in rows}

\* the CHECK constraints of the subscriptions table
TableChecks(sub) ==
    /\ sub.price > 0
    /\ sub.start_date.Valid
    /\ (~sub.end_date.Valid \/ sub.end_date.Time >= sub.start_date.Time)

\* InsertRow with end_date left out of the column list
InsertRowWithoutEndDate(st, nid, sub) ==
    st \cup {[sub EXCEPT !.id = nid, !.end_date = NullDate,
                         !.created_at = TimeOf(now), !.updated_at = TimeOf(now)]}

\* InsertRow with the id of the request, when it has one, in the column list
InsertRowWithRequestId(st, nid, sub) ==
    st \cup {[sub EXCEPT !.id = IF sub.id > 0 THEN sub.id ELSE nid,
                         !.created_at = TimeOf(now), !.updated_at = TimeOf(now)]}

\* INSERT INTO subscriptions ... VALUES (..., time.Now(), time.Now())
\* RETURNING id
InsertRow(st, nid, sub) ==
    st \cup {[sub EXCEPT !.id = nid, !.created_at = TimeOf(now),
                         !.updated_at = TimeOf(now)]}

\* UpdateRows setting created_at as well
UpdateRowsStampingCreatedAt(st, sub) ==
    {IF r.id = sub.id
     THEN [r EXCEPT !.service_name = sub.service_name, !.price = sub.price,
                    !.user_uuid = sub.user_uuid, !.start_date = sub.start_date,
                    !.end_date = sub.end_date, !.created_at = TimeOf(now),
                    !.updated_at = TimeOf(now)]
     ELSE r : r \in st}

\* UPDATE subscriptions SET ..., updated_at = time.Now() WHERE id = $1
UpdateRows(st, sub) ==
    {IF r.id = sub.id
     THEN [r EXCEPT !.service_name = sub.service_name, !.price = sub.price,
                    !.user_uuid = sub.user_uuid, !.start_date = sub.start_date,
                    !.end_date = sub.end_date, !.updated_at = TimeOf(now)]
     ELSE r : r \in st}

\* DELETE FROM subscriptions WHERE id = $1
DeleteRows(st, id) == {r \in st : r.id # id}

\* the identifier Create and Update probe the table with
NaturalKey(sub) == SubscriptionIdentifier(0, sub.user_uuid, sub.service_name)

\* the INSERT of Database.Create: a row the table's constraints refuse
\* fails the statement, the sequence having advanced
DatabaseInsert(st, nid, sub) ==
    IF TableChecks(sub)
    THEN [err |-> ErrNil, id |-> nid, store |-> InsertRow(st, nid, sub),
          nextId |-> nid + 1]
    ELSE [err |-> ErrInternalServer, id |-> 0, store |-> st, nextId |-> nid + 1]

\* DatabaseCreateAfter returning the zero IDResponse on a conflict
DatabaseCreateAfterWithoutId(st, nid, sub, p) ==
    IF p.err = ErrInternalServer
    THEN [err |-> ErrInternalServer, id |-> 0, store |-> st, nextId |-> nid]
    ELSE IF p.err # ErrNotFound
    THEN [err |-> ErrConflict, id |-> 0, store |-> st, nextId |-> nid]
    ELSE DatabaseInsert(st, nid, sub)

\* Database.Create after its probe returned p: a probe that failed is an
\* internal server error, a row found is a conflict
DatabaseCreateAfter(st, nid, sub, p) ==
    IF p.err = ErrInternalServer
    THEN [err |-> ErrInternalServer, id |-> 0, store |-> st, nextId |-> nid]
    ELSE IF p.err # ErrNotFound
    THEN [err |-> ErrConflict, id |-> p.sub.id, store |-> st, nextId |-> nid]
    ELSE DatabaseInsert(st, nid, sub)

\* Database.Create
DatabaseCreate(st, nid, sub) ==
    {DatabaseCreateAfter(st, nid, sub, p) : p \in DatabaseRead(st, NaturalKey(sub))}

\* DatabaseUpdateAfter comparing nothing: any row found is taken for the
\* updated one
DatabaseUpdateAfterUnchecked(st, sub, p) ==
    IF p.err = ErrInternalServer
    THEN [err |-> ErrInternalServer, store |-> st]
    ELSE [err |-> ErrNil, store |-> UpdateRows(st, sub)]

\* DatabaseUpdateAfter taking any row its probe found for a conflict, the
\* updated row itself included
DatabaseUpdateAfterConflictOnOwnKey(st, sub, p) ==
    IF p.err = ErrInternalServer
    THEN [err |-> ErrInternalServer, store |-> st]
    ELSE IF p.err = ErrNil
    THEN [err |-> ErrConflict, store |-> st]
    ELSE IF (\E r \in st : r.id = sub.id) /\ ~TableChecks(sub)
    THEN [err |-> ErrInternalServer, store |-> st]
    ELSE [err |-> ErrNil, store |-> UpdateRows(st, sub)]

\* Database.Update after its probe returned p: the error of a probe that
\* failed is returned; the UPDATE fails when it would give a row values the
\* table's constraints refuse
DatabaseUpdateAfter(st, sub, p) ==
    IF p.err = ErrInternalServer
    THEN [err |-> ErrInternalServer, store |-> st]
    ELSE IF p.err = ErrNil /\ sub.id # p.sub.id
    THEN [err |-> ErrConflict, store |-> st]
    ELSE IF (\E r \in st : r.id = sub.id) /\ ~TableChecks(sub)
    THEN [err |-> ErrInternalServer, store |-> st]
    ELSE [err |-> ErrNil, store |-> UpdateRows(st, sub)]

\* Database.Update
DatabaseUpdate(st, sub) ==
    {DatabaseUpdateAfter(st, sub, p) : p \in DatabaseRead(st, NaturalKey(sub))}

\* DatabaseDelete deleting by the identifier's id, not by the id of the row
\* it found
DatabaseDeleteByRequestId(st, identifier) ==
    {IF p.err # ErrNil
     THEN [err |-> p.err, store |-> st, row |-> ZeroSubscription]
     ELSE [err |-> ErrNil, store |-> DeleteRows(st, identifier.id), row |-> p.sub]
     : p \in DatabaseRead(st, identifier)}

\* Database.Delete
DatabaseDelete(st, identifier) ==
    {IF p.err # ErrNil
     THEN [err |-> p.err, store |-> st, row |-> ZeroSubscription]
     ELSE [err |-> ErrNil, store |-> DeleteRows(st, p.sub.id), row |-> p.sub]
     : p \in DatabaseRead(st, identifier)}

(***************************************************************************)
(* Domain Service.  Every operation yields the set of its possible         *)
(* outcomes: the error and result it returns, the table and the cache it   *)
(* leaves, and the number of storage-engine calls it made.                 *)
(***************************************************************************)
Outcome(err, id, sub, st, nid, ch, calls, written, row) ==
    [err |-> err, id |-> id, sub |-> sub, store |-> st, nextId |-> nid,
     cache |-> ch, dbCalls |-> calls, written |-> written, row |-> row]

\* ValidateSubscription without its check of the service name
ValidateSubscriptionNameUnchecked(sub) ==
    IF sub.user_uuid = NilUUID THEN ErrBadRequest
    ELSE IF sub.price <= 0 THEN ErrBadRequest
    ELSE IF \/ ~sub.start_date.Valid
            \/ (sub.end_date.Valid /\ sub.end_date.Time < sub.start_date.Time)
         THEN ErrBadRequest
         ELSE ErrNil

\* Service.ValidateSubscription
ValidateSubscription(sub) ==
    IF sub.user_uuid = NilUUID THEN ErrBadRequest
    ELSE IF sub.service_name = "" THEN ErrBadRequest
    ELSE IF sub.price <= 0 THEN ErrBadRequest
    ELSE IF \/ ~sub.start_date.Valid
            \/ (sub.end_date.Valid /\ sub.end_date.Time < sub.start_date.Time)
         THEN ErrBadRequest
         ELSE ErrNil

\* the guard of Service.Read and Service.Delete
NotEnoughArguments(identifier) ==
    /\ identifier.id = 0
    /\ (identifier.user_uuid = NilUUID \/ identifier.service_name = "")

\* what NewService returns: nil when NewCache failed, else a Service with
\* its Database and its Cache
NilService == "nil"
SomeService == "&Service{Database, Cache}"

\* NewService
NewService(cacheConnects) == IF cacheConnects THEN SomeService ELSE NilService

\* a method of a nil *Service reaching s.Database or s.Cache: the goroutine
\* panics, nothing having been called
NilDereference(st, nid, ch) ==
    Outcome(ErrPanic, 0, ZeroSubscription, st, nid, ch, 0, ZeroSubscription,
            ZeroSubscription)

\* Service.Create
ServiceCreate(st, nid, ch, sub) ==
    IF ValidateSubscription(sub) # ErrNil
    THEN {Outcome(ErrBadRequest, 0, ZeroSubscription, st, nid, ch, 0, sub,
                  ZeroSubscription)}
    ELSE IF service = NilService THEN {NilDereference(st, nid, ch)}
    ELSE {Outcome(d.err, d.id, ZeroSubscription, d.store, d.nextId,
                  CacheSetSubscription(ch, [sub EXCEPT !.id = d.id]), 1, sub,
                  ZeroSubscription)
          : d \in DatabaseCreate(st, nid, sub)}

\* Service.Read
ServiceRead(st, nid, ch, identifier) ==
    IF NotEnoughArguments(identifier)
    THEN {Outcome(ErrBadRequest, 0, ZeroSubscription, st, nid, ch, 0,
                  ZeroSubscription, ZeroSubscription)}
    ELSE IF service = NilService THEN {NilDereference(st, nid, ch)}
    ELSE LET c == CacheGetSubscription(ch, identifier)
         IN  IF c.found /\ c.err = ErrNil
             THEN {Outcome(ErrNil, 0, c.sub, st, nid, ch, 0, ZeroSubscription,
                           ZeroSubscription)}
             ELSE {Outcome(d.err, 0, d.sub, st, nid, ch, 1, ZeroSubscription,
                           ZeroSubscription)
                   : d \in DatabaseRead(st, identifier)}

\* Service.Update invalidating only when Database.Update returned no error
ServiceUpdateInvalidatingOnSuccess(st, nid, ch, sub) ==
    IF ValidateSubscription(sub) # ErrNil
    THEN {Outcome(ErrBadRequest, 0, ZeroSubscription, st, nid, ch, 0, sub,
                  ZeroSubscription)}
    ELSE IF service = NilService THEN {NilDereference(st, nid, ch)}
    ELSE {Outcome(d.err, 0, ZeroSubscription, d.store, nid,
                  IF d.err = ErrNil
                  THEN CacheDeleteSubscription(ch, SubscriptionIdentifier(sub.id, NilUUID, ""))
                  ELSE ch,
                  1, sub, ZeroSubscription)
          : d \in DatabaseUpdate(st, sub)}

\* Service.Update
ServiceUpdate(st, nid, ch, sub) ==
    IF ValidateSubscription(sub) # ErrNil
    THEN {Outcome(ErrBadRequest, 0, ZeroSubscription, st, nid, ch, 0, sub,
                  ZeroSubscription)}
    ELSE IF service = NilService THEN {NilDereference(st, nid, ch)}
    ELSE {Outcome(d.err, 0, ZeroSubscription, d.store, nid,
                  CacheDeleteSubscription(ch, SubscriptionIdentifier(sub.id, NilUUID, "")),
                  1, sub, ZeroSubscription)
          : d \in DatabaseUpdate(st, sub)}

\* a field of a SubscriptionPatch: a nil pointer, or a pointer to a value
NilPtr(zero) == [nil |-> TRUE, v |-> zero]
PtrTo(v) == [nil |-> FALSE, v |-> v]

\* Service.Patch, the merge: an absent field takes the stored row's value
PatchMerge(patch, exists) ==
    Subscription(patch.id,
        IF ~patch.service_name.nil THEN patch.service_name.v ELSE exists.service_name,
        IF ~patch.price.nil THEN patch.price.v ELSE exists.price,
        IF ~patch.user_uuid.nil THEN patch.user_uuid.v ELSE exists.user_uuid,
        IF ~patch.start_date.nil THEN patch.start_date.v ELSE exists.start_date,
        IF ~patch.end_date.nil THEN patch.end_date.v ELSE exists.end_date)

\* Service.Patch after its read of the row returned e
ServicePatchAfter(st, nid, ch, patch, e) ==
    IF e.err # ErrNil
    THEN {Outcome(e.err, 0, ZeroSubscription, st, nid, ch, 1, ZeroSubscription,
                  ZeroSubscription)}
    ELSE LET sub == PatchMerge(patch, e.sub)
         IN  IF ValidateSubscription(sub) # ErrNil
             THEN {Outcome(ErrBadRequest, 0, ZeroSubscription, st, nid, ch, 1,
                           sub, e.sub)}
             ELSE {Outcome(d.err, 0, ZeroSubscription, d.store, nid,
                           CacheDeleteSubscription(ch,
                               SubscriptionIdentifier(sub.id, NilUUID, "")),
                           2, sub, e.sub)
                   : d \in DatabaseUpdate(st, sub)}

\* Service.Patch
ServicePatch(st, nid, ch, patch) ==
    IF service = NilService THEN {NilDereference(st, nid, ch)}
    ELSE UNION {ServicePatchAfter(st, nid, ch, patch, e)
                : e \in DatabaseRead(st, SubscriptionIdentifier(patch.id, NilUUID, ""))}

\* Service.Delete
ServiceDelete(st, nid, ch, identifier) ==
    IF NotEnoughArguments(identifier)
    THEN {Outcome(ErrBadRequest, 0, ZeroSubscription, st, nid, ch, 0,
                  ZeroSubscription, ZeroSubscription)}
    ELSE IF service = NilService THEN {NilDereference(st, nid, ch)}
    ELSE {Outcome(d.err, 0, ZeroSubscription, d.store, nid,
                  CacheDeleteSubscription(ch, identifier), 1, ZeroSubscription,
                  d.row)
          : d \in DatabaseDelete(st, identifier)}

(***************************************************************************)
(* Summary: the aggregate query of the Storage Engine and its callers.     *)
(***************************************************************************)
\* models.SubscriptionsWithinPeriod, as Summary uses it
SubscriptionsWithinPeriod(uuid, name, start, end) ==
    [user_uuid |-> uuid, service_name |-> name, start_date |-> start, end_date |-> end]

\* the zero value models.SummaryResponse{}
NoSummary == [amount |-> 0, months |-> 0, total |-> 0]

\* EXTRACT(YEAR FROM t) and EXTRACT(MONTH FROM t)
SqlYear(t) == t \div 12
SqlMonth(t) == (t % 12) + 1

\* a <= b in SQL: not true when a or b is NULL
SqlLessEq(a, b) == a.Valid /\ b.Valid /\ a.Time <= b.Time

\* COALESCE(a, b)
SqlCoalesce(a, b) == IF a.Valid THEN a ELSE b

\* LEAST(a, b) and GREATEST(a, b): a NULL argument is ignored
SqlLeast(a, b) ==
    IF ~a.Valid THEN b ELSE IF ~b.Valid THEN a
    ELSE IF a.Time <= b.Time THEN a ELSE b

SqlGreatest(a, b) ==
    IF ~a.Valid THEN b ELSE IF ~b.Valid THEN a
    ELSE IF a.Time >= b.Time THEN a ELSE b

\* the month difference without its "+ 1"
MonthSpanExclusive(from, to) ==
    (SqlYear(to.Time) - SqlYear(from.Time)) * 12
    + SqlMonth(to.Time) - SqlMonth(from.Time)

\* (EXTRACT(YEAR FROM to) - EXTRACT(YEAR FROM from)) * 12
\*   + EXTRACT(MONTH FROM to) - EXTRACT(MONTH FROM from) + 1
MonthSpan(from, to) ==
    (SqlYear(to.Time) - SqlYear(from.Time)) * 12
    + SqlMonth(to.Time) - SqlMonth(from.Time) + 1

\* the WHERE clause of Database.Summary
SummaryWhere(r, params) ==
    /\ (params.user_uuid = NilUUID \/ r.user_uuid = params.user_uuid)
    /\ (params.service_name = "" \/ r.service_name = params.service_name)
    /\ SqlLessEq(r.start_date, params.end_date)
    /\ (~r.end_date.Valid \/ SqlLessEq(params.start_date, r.end_date))

\* the term of row r in SUM(...)
SummaryTerm(r, params) ==
    MonthSpan(SqlGreatest(r.start_date, params.start_date),
              SqlLeast(SqlCoalesce(r.end_date, params.end_date), params.end_date))
    * r.price

\* SUM(...) over the rows
RECURSIVE SummarySum(_, _)
SummarySum(rows, params) ==
    IF rows = {} THEN 0
    ELSE LET r == CHOOSE r \in rows : TRUE
         IN  SummaryTerm(r, params) + SummarySum(rows \ {r}, params)

\* Database.Summary: the one row of the aggregate query is scanned into three
\* ints; months is NULL when a bound is NULL and SUM is NULL when no row
\* passes the WHERE clause, and Scan fails on a NULL
DatabaseSummary(st, params) ==
    LET rows == {r \in st : SummaryWhere(r, params)}
    IN  IF ~DatabaseOpen
           \/ ~params.start_date.Valid \/ ~params.end_date.Valid \/ rows = {}
        THEN [err |-> ErrInternalServer, summary |-> NoSummary]
        ELSE [err |-> ErrNil,
              summary |-> [amount |-> Cardinality(rows),
                           months |-> MonthSpan(params.start_date, params.end_date),
                           total |-> SummarySum(rows, params)]]

\* Service.Summary
ServiceSummary(st, params) ==
    IF /\ params.end_date.Valid
       /\ params.start_date.Valid
       /\ params.end_date.Time < params.start_date.Time
    THEN [err |-> ErrBadRequest, summary |-> NoSummary, dbCalls |-> 0]
    ELSE IF service = NilService
    THEN [err |-> ErrPanic, summary |-> NoSummary, dbCalls |-> 0]
    ELSE LET d == DatabaseSummary(st, params)
         IN  [err |-> d.err, summary |-> d.summary, dbCalls |-> 1]

\* a start_date or end_date of the query string: absent (or empty), a month
\* MM-YYYY, or a text that time.Parse refuses
QueryAbsent == [kind |-> "absent", text |-> FormatMonthYear(ZeroTime)]
QueryMonth(t) == [kind |-> "month", text |-> FormatMonthYear(t)]
QueryMalformed == [kind |-> "malformed", text |-> FormatMonthYear(ZeroTime)]

\* the query of a summary request
SummaryQuery(uuid, name, start, end) ==
    [user_uuid |-> uuid, service_name |-> name, start_date |-> start, end_date |-> end]

NoQuery == SummaryQuery(NilUUID, "", QueryAbsent, QueryAbsent)

\* Handler.Summary, a bound of the window: an absent one is left not Valid
QueryDate(q) ==
    IF q.kind = "month" THEN DateOf(ParseMonthYear(q.text)) ELSE NullDate

\* Handler.Summary: a bound that does not parse is answered 400, any other
\* query goes to Service.Summary
HandlerSummary(st, query) ==
    IF query.start_date.kind = "malformed" \/ query.end_date.kind = "malformed"
    THEN [err |-> ErrBadRequest, summary |-> NoSummary, dbCalls |-> 0]
    ELSE ServiceSummary(st, SubscriptionsWithinPeriod(query.user_uuid,
             query.service_name, QueryDate(query.start_date),
             QueryDate(query.end_date)))

(***************************************************************************)
(* List: the filtered, ordered and paginated query of the Storage Engine   *)
(* and its callers.                                                        *)
(***************************************************************************)
\* models.SubscriptionsWithinPeriod with its Limit and Offset
ListParams(uuid, name, start, end, limit, offset) ==
    [user_uuid |-> uuid, service_name |-> name, start_date |-> start,
     end_date |-> end, limit |-> limit, offset |-> offset]

\* the WHERE clause of Database.List
ListWhere(r, params) ==
    /\ (params.user_uuid = NilUUID \/ r.user_uuid = params.user_uuid)
    /\ (params.service_name = "" \/ r.service_name = params.service_name)
    /\ (~params.end_date.Valid \/ SqlLessEq(r.start_date, params.end_date))
    /\ (\/ ~params.start_date.Valid
        \/ ~r.end_date.Valid
        \/ SqlLessEq(params.start_date, r.end_date))

\* ORDER BY id
RECURSIVE OrderById(_)
OrderById(rows) ==
    IF rows = {} THEN <<>>
    ELSE LET r == CHOOSE r \in rows : \A q \in rows : r.id <= q.id
         IN  <<r>> \o OrderById(rows \ {r})

\* LIMIT limit with the OFFSET left out
LimitWithoutOffset(s, limit, offset) ==
    SubSeq(s, 1, IF Len(s) < limit THEN Len(s) ELSE limit)

\* LIMIT limit OFFSET offset
LimitOffset(s, limit, offset) ==
    SubSeq(s, offset + 1, IF Len(s) < offset + limit THEN Len(s) ELSE offset + limit)

\* Database.List: the storage engine refuses a negative LIMIT or OFFSET, and
\* that error is returned as the driver gave it
DatabaseList(st, params) ==
    IF ~DatabaseOpen
    THEN [err |-> ErrClosed, list |-> <<>>]
    ELSE IF params.limit < 0 \/ params.offset < 0
    THEN [err |-> ErrDriver, list |-> <<>>]
    ELSE [err |-> ErrNil,
          list |-> LimitOffset(OrderById({r \in st : ListWhere(r, params)}),
                               params.limit, params.offset)]

\* Service.List
ServiceList(st, params) ==
    IF /\ params.end_date.Valid
       /\ params.start_date.Valid
       /\ params.end_date.Time < params.start_date.Time
    THEN [err |-> ErrBadRequest, list |-> <<>>, dbCalls |-> 0]
    ELSE IF service = NilService
    THEN [err |-> ErrPanic, list |-> <<>>, dbCalls |-> 0]
    ELSE LET d == DatabaseList(st, params)
         IN  [err |-> d.err, list |-> d.list, dbCalls |-> 1]

\* a limit or offset of the query string: absent, a number, or a text that
\* strconv.Atoi refuses
QueryNoInt == [kind |-> "absent", n |-> 0]
QueryInt(n) == [kind |-> "int", n |-> n]
QueryBadInt == [kind |-> "malformed", n |-> 0]

\* the defaults of limit and offset
DefaultLimit == 10
DefaultOffset == 0

\* the query of a list request
ListQuery(uuid, name, start, end, limit, offset) ==
    [user_uuid |-> uuid, service_name |-> name, start_date |-> start,
     end_date |-> end, limit |-> limit, offset |-> offset]

\* Handler.List, its limit or offset
QueryIntOr(q, default) == IF q.kind = "int" THEN q.n ELSE default

\* Handler.List: a bound, limit or offset that does not parse is answered
\* 400, any other query goes to Service.List
HandlerList(st, query) ==
    IF \/ query.start_date.kind = "malformed"
       \/ query.end_date.kind = "malformed"
       \/ query.limit.kind = "malformed"
       \/ query.offset.kind = "malformed"
    THEN [err |-> ErrBadRequest, list |-> <<>>, dbCalls |-> 0]
    ELSE ServiceList(st, ListParams(query.user_uuid, query.service_name,
             QueryDate(query.start_date), QueryDate(query.end_date),
             QueryIntOr(query.limit, DefaultLimit),
             QueryIntOr(query.offset, DefaultOffset)))

(***************************************************************************)
(* Transport Adapter: the requests the handlers hand to the Service.       *)
(***************************************************************************)
\* a field of a patch request body: absent, or a JSON value
Absent(zero) == [present |-> FALSE, json |-> zero]
Present(json) == [present |-> TRUE, json |-> json]

\* encoding/json on a pointer field: an absent field and a JSON null leave
\* the pointer nil; any other value is decoded into a new pointee
DecodePtr(field, zero) ==
    IF field.present THEN PtrTo(field.json) ELSE NilPtr(zero)

\* the same for a *CustomDate field, whose pointee decodes with UnmarshalJSON
DecodeDatePtr(field) ==
    IF field.present /\ field.json.kind # "null"
    THEN PtrTo(CustomDateUnmarshalJSON(field.json).date)
    ELSE NilPtr(NullDate)

\* Handler.Patch, ShouldBindJSON(&subscriptionPatch)
BindPatch(body) ==
    [id |-> body.id,
     service_name |-> DecodePtr(body.service_name, ""),
     price |-> DecodePtr(body.price, 0),
     user_uuid |-> DecodePtr(body.user_uuid, NilUUID),
     start_date |-> DecodeDatePtr(body.start_date),
     end_date |-> DecodeDatePtr(body.end_date)]

JsonDates == {JsonNull} \cup {JsonString(FormatMonthYear(t)) : t \in Months}

PatchFields == {"service_name", "price", "user_uuid", "start_date", "end_date"}

\* the patch request bodies of the model
PatchBodies ==
    {b \in [id : IDs,
            service_name : {Absent("")} \cup {Present(n) : n \in Names},
            price : {Absent(0)} \cup {Present(p) : p \in Prices},
            user_uuid : {Absent(NilUUID)} \cup {Present(u) : u \in UUIDs},
            start_date : {Absent(JsonNull)} \cup {Present(j) : j \in JsonDates},
            end_date : {Absent(JsonNull)} \cup {Present(j) : j \in JsonDates}]
       : Cardinality({f \in PatchFields : b[f].present}) <= MaxPatchFields}

ZeroPatchBody ==
    [id |-> 0, service_name |-> Absent(""), price |-> Absent(0),
     user_uuid |-> Absent(NilUUID), start_date |-> Absent(JsonNull),
     end_date |-> Absent(JsonNull)]

\* the subscriptions a create or update request body decodes to
Subscriptions(ids) ==
    {Subscription(id, n, p, u, s, e)
     : id \in ids, n \in Names, p \in Prices, u \in UUIDs,
       s \in CustomDates, e \in CustomDates}

\* the identifiers a read or delete request's query decodes to
Identifiers == {SubscriptionIdentifier(id, u, n) : id \in IDs, u \in UUIDs, n \in Names}

\* the status codes of net/http the handlers answer with
StatusOK == 200
StatusCreated == 201
StatusBadRequest == 400
StatusNotFound == 404
StatusConflict == 409
StatusInternalServerError == 500

\* the errors the switch of a handler has a case for, besides err != nil
HandlerCases(op) ==
    {ErrBadRequest, ErrInternalServer}
    \cup (IF op \in {"Read", "Update", "Patch", "Delete", "Summary"}
          THEN {ErrNotFound} ELSE {})
    \cup (IF op \in {"Create", "Update"} THEN {ErrConflict} ELSE {})

\* the status a case of the switch answers with
CaseStatus(err) ==
    IF err = ErrBadRequest THEN StatusBadRequest
    ELSE IF err = ErrNotFound THEN StatusNotFound
    ELSE IF err = ErrConflict THEN StatusConflict
    ELSE StatusInternalServerError

\* the status a handler answers with when its Service call returned err:
\* an error without a case of its own falls to "err != nil", and a panic is
\* answered by gin's Recovery
HandlerStatus(op, err) ==
    IF err = ErrNil
    THEN IF op = "Create" THEN StatusCreated ELSE StatusOK
    ELSE IF err \in HandlerCases(op) THEN CaseStatus(err)
    ELSE StatusInternalServerError

(***************************************************************************)
(* The initial state and the requests handled one at a time.               *)
(***************************************************************************)
\* the bound on the requests in flight at once
NumProcs == 2
Procs == 1..NumProcs

NoProbe == [err |-> ErrNil, sub |-> ZeroSubscription]
IdleProc == [pc |-> "idle", sub |-> ZeroSubscription, probe |-> NoProbe, err |-> ErrNil]

NoRequest ==
    [op |-> "none", identifier |-> ZeroIdentifier, arg |-> ZeroSubscription,
     patch |-> ZeroPatchBody, err |-> ErrNil, id |-> 0, sub |-> ZeroSubscription,
     dbCalls |-> 0, written |-> ZeroSubscription, row |-> ZeroSubscription,
     query |-> NoQuery, summary |-> NoSummary, list |-> <<>>, status |-> 0]

NoneCreated == [id |-> 0, sub |-> ZeroSubscription]

\* the process while it serves: no request in flight, no signal received,
\* both connections open
Serving ==
    [phase |-> "serving", work |-> [p \in Procs |-> 0], elapsed |-> 0,
     cut |-> 0, db |-> "open", cache |-> "open"]

EmptyCache == [k \in {} |-> JsonMarshalSubscription(ZeroSubscription)]

Init ==
    /\ store = {}
    /\ nextId = 1
    /\ cache = EmptyCache
    /\ last = NoRequest
    /\ created = NoneCreated
    /\ deleted = {}
    /\ procs = [p \in Procs |-> IdleProc]
    /\ now = 1
    /\ redisUp = TRUE
    /\ service = NewService(redisUp)
    /\ wire = NoWire
    /\ process = Serving

SameKey(a, b) == a.user_uuid = b.user_uuid /\ a.service_name = b.service_name

\* an identifier names a row: by an id > 0 or by a whole natural key
Resolvable(identifier) ==
    \/ identifier.id > 0
    \/ (identifier.user_uuid # NilUUID /\ identifier.service_name # "")

\* the history of deletions after request op ended with outcome o: a
\* deletion counts when its identifier named the row by an id > 0 or by a
\* whole natural key
DeletedAfter(op, identifier, o) ==
    IF o.err # ErrNil THEN deleted
    ELSE IF op = "Delete"
    THEN IF ~Resolvable(identifier)
         THEN deleted
         ELSE deleted \cup {[id |-> o.row.id, user_uuid |-> o.row.user_uuid,
                        service_name |-> o.row.service_name, reuse |-> "none"]}
    ELSE IF op = "Create"
    THEN {IF SameKey(d, o.written) THEN [d EXCEPT !.reuse = "create"] ELSE d
          : d \in deleted}
    ELSE IF op \in {"Update", "Patch"}
    THEN {IF /\ SameKey(d, o.written)
             /\ d.reuse = "none"
             /\ \E r \in o.store : r.id = o.written.id
          THEN [d EXCEPT !.reuse = "update"] ELSE d
          : d \in deleted}
    ELSE deleted

\* a request handled from its arrival to its return: the state it leaves;
\* track says whether the history of deletions is kept
Handle(op, identifier, arg, patch, o, track) ==
    /\ last.op = "none"
    /\ o.nextId <= MaxId + 1
    /\ store' = o.store
    /\ nextId' = o.nextId
    /\ cache' = o.cache
    /\ last' = [op |-> op, identifier |-> identifier, arg |-> arg,
                patch |-> patch, err |-> o.err, id |-> o.id, sub |-> o.sub,
                dbCalls |-> o.dbCalls, written |-> o.written, row |-> o.row,
                query |-> NoQuery, summary |-> NoSummary, list |-> <<>>,
                status |-> HandlerStatus(op, o.err)]
    /\ created' = IF op = "Create" /\ o.err = ErrNil
                  THEN [id |-> o.id, sub |-> arg]
                  ELSE IF op = "Read" THEN created ELSE NoneCreated
    /\ deleted' = IF track THEN DeletedAfter(op, identifier, o) ELSE deleted
    /\ UNCHANGED <<procs, env>>

CreateOf(subs, track) ==
    \E sub \in subs :
      \E o \in ServiceCreate(store, nextId, cache, sub) :
        Handle("Create", ZeroIdentifier, sub, ZeroPatchBody, o, track)

ReadOf(identifiers, track) ==
    \E identifier \in identifiers :
      \E o \in ServiceRead(store, nextId, cache, identifier) :
        Handle("Read", identifier, ZeroSubscription, ZeroPatchBody, o, track)

UpdateOf(subs, track) ==
    \E sub \in subs :
      \E o \in ServiceUpdate(store, nextId, cache, sub) :
        Handle("Update", ZeroIdentifier, sub, ZeroPatchBody, o, track)

PatchOf(bodies, track) ==
    \E body \in bodies :
      \E o \in ServicePatch(store, nextId, cache, BindPatch(body)) :
        Handle("Patch", ZeroIdentifier, ZeroSubscription, body, o, track)

DeleteOf(identifiers, track) ==
    \E identifier \in identifiers :
      \E o \in ServiceDelete(store, nextId, cache, identifier) :
        Handle("Delete", identifier, ZeroSubscription, ZeroPatchBody, o, track)

CreateBodies == Subscriptions({0, 1})
UpdateBodies == Subscriptions(IDs)

Create == CreateOf(CreateBodies, FALSE)
Read == ReadOf(Identifiers, FALSE)
Update == UpdateOf(UpdateBodies, FALSE)
Patch == PatchOf(PatchBodies, FALSE)
Delete == DeleteOf(Identifiers, FALSE)

\* the response is written and the handler returns
Respond ==
    /\ last.op # "none"
    /\ last' = NoRequest
    /\ UNCHANGED <<store, nextId, cache, created, deleted, procs, env>>

\* a cache entry reaches its time to live
Expire ==
    /\ last.op = "none"
    /\ \E key \in DOMAIN cache : cache' = RedisDel(cache, key)
    /\ UNCHANGED <<store, nextId, last, created, deleted, procs, env>>

Next == Create \/ Read \/ Update \/ Patch \/ Delete \/ Respond \/ Expire

Spec == Init /\ [][Next]_vars

(***************************************************************************)
(* Properties of the Service when requests run one at a time.              *)
(***************************************************************************)
Valid(sub) == ValidateSubscription(sub) = ErrNil

IdOnly(id) == SubscriptionIdentifier(id, NilUUID, "")

\* the fields of a subscription that a client sets
Fields(sub) ==
    [service_name |-> sub.service_name, price |-> sub.price,
     user_uuid |-> sub.user_uuid, start_date |-> sub.start_date,
     end_date |-> sub.end_date]

\* a request was just handled: this step is the whole of its handling
Handled(op) == last.op = "none" /\ last'.op = op

\* C1: when requests run one at a time, no two rows of the table have the
\* same (user_uuid, service_name)
NaturalKeyUnique ==
    \A r1 \in store : \A r2 \in store : SameKey(r1, r2) => r1 = r2

\* C1, reached: an Update that would have given a second row the natural
\* key of another one was refused, both rows being in the table
NaturalKeyUniqueWitness ==
    /\ last.op = "Update"
    /\ last.err = ErrConflict
    /\ Cardinality(store) = 2
    /\ \E r \in store : r.id = last.arg.id /\ ~SameKey(r, last.arg)

\* C3: a Create of a valid subscription whose natural key is that of a row
\* of the table returns Conflict with the id of that row and leaves the
\* table as it was
CreateConflict ==
    [][\A r \in store :
         (Handled("Create") /\ Valid(last'.arg) /\ SameKey(r, last'.arg))
         => (last'.err = ErrConflict /\ last'.id = r.id /\ store' = store
             /\ nextId' = nextId)]_vars

\* C3, reached: a Create was refused with the id of the row holding its
\* natural key
CreateConflictWitness ==
    /\ last.op = "Create"
    /\ last.err = ErrConflict
    /\ \E r \in store : r.id = last.id /\ SameKey(r, last.arg)

\* C4: a Read with the id a successful Create just returned gives a record
\* with that id and the created subscription's fields
CreateThenRead ==
    (/\ last.op = "Read"
     /\ created # NoneCreated
     /\ last.identifier = IdOnly(created.id))
    => /\ last.err = ErrNil
       /\ last.sub.id = created.id
       /\ Fields(last.sub) = Fields(created.sub)

\* C4, reached: such a Read returned the record
CreateThenReadWitness ==
    /\ last.op = "Read"
    /\ created # NoneCreated
    /\ last.identifier = IdOnly(created.id)
    /\ last.sub.id = created.id
    /\ last.sub.end_date.Valid

\* C5 as claimed: an Update of a valid subscription whose id matches no row
\* returns NotFound and leaves the table as it was
UpdateMissingIsNotFound ==
    [][(/\ Handled("Update")
        /\ Valid(last'.arg)
        /\ \A r \in store : r.id # last'.arg.id)
       => (last'.err = ErrNotFound /\ store' = store)]_vars

\* C6 as claimed: a Patch whose id matches no row returns NotFound and
\* leaves the table as it was, whatever else it carries
PatchMissingIsNotFound ==
    [][(/\ Handled("Patch")
        /\ \A r \in store : r.id # last'.patch.id)
       => (last'.err = ErrNotFound /\ store' = store)]_vars

\* C7 as claimed: Read and Delete of an identifier with neither an id > 0
\* nor a whole natural key return BadRequest; no row is returned or removed
UnresolvableIsBadRequest ==
    [][(/\ (Handled("Read") \/ Handled("Delete"))
        /\ ~Resolvable(last'.identifier))
       => (last'.err = ErrBadRequest /\ last'.sub = ZeroSubscription
           /\ store' = store)]_vars

\* C8 as claimed: with an id > 0, Read and Delete do what they do for the
\* identifier that carries that id alone
IdTakesPriority ==
    [][/\ (Handled("Read") /\ last'.identifier.id > 0)
          => \E o \in ServiceRead(store, nextId, cache, IdOnly(last'.identifier.id)) :
               o.err = last'.err /\ o.sub = last'.sub
       /\ (Handled("Delete") /\ last'.identifier.id > 0)
          => \E o \in ServiceDelete(store, nextId, cache, IdOnly(last'.identifier.id)) :
               o.err = last'.err /\ o.store = store']_vars

\* C10 as claimed: a Read with the id a successful Create just returned,
\* the cache entry of that id not having expired, calls no storage engine
ReadAfterCreateFromCache ==
    (/\ last.op = "Read"
     /\ created # NoneCreated
     /\ last.identifier = IdOnly(created.id)
     /\ subID(created.id) \in DOMAIN cache)
    => last.dbCalls = 0

\* the subscription Service.Create hands to SetSubscription once
\* Database.Create has returned
CachedByCreate == [last.arg EXCEPT !.id = last.id]

\* C11 as claimed: once SetSubscription(s) has run, GetSubscription by the id
\* of s and GetSubscription by the natural key of s both return s, without
\* error
SetThenGetByBothKeys ==
    (last.op = "Create" /\ last.dbCalls = 1)
    => \A identifier \in {IdOnly(CachedByCreate.id), NaturalKey(CachedByCreate)} :
         LET c == CacheGetSubscription(cache, identifier)
         IN  c.found /\ c.err = ErrNil /\ c.sub = CachedByCreate

\* the request just handled is a successful Update, Patch or Delete and k is
\* the row of the table it wrote or removed (a Delete naming its row by an
\* id > 0 or by a whole natural key)
Mutated(k) ==
    /\ last'.err = ErrNil
    /\ \/ (Handled("Update") \/ Handled("Patch")) /\ last'.written.id = k.id
       \/ Handled("Delete") /\ last'.row = k /\ Resolvable(last'.identifier)

\* C12 as claimed: after a successful Update, Patch or Delete of row k the
\* cache holds no entry under the id key of k nor under the natural key k had
MutationInvalidatesBothKeys ==
    [][\A k \in store :
         Mutated(k)
         => /\ subID(k.id) \notin DOMAIN cache'
            /\ subUserAndService(k.user_uuid, k.service_name) \notin DOMAIN cache']_vars

\* C13 as claimed: Service.Create writes one cache entry, under the new id,
\* when Database.Create succeeded, and leaves the cache as it was otherwise
CreateFillsCacheOnSuccessOnly ==
    [][Handled("Create")
       => IF last'.err = ErrNil
          THEN /\ DOMAIN cache' = DOMAIN cache \cup {subID(last'.id)}
               /\ \A key \in DOMAIN cache : key # subID(last'.id) => cache'[key] = cache[key]
          ELSE cache' = cache]_vars

(***************************************************************************)
(* The history of deletions, kept for the requests of valid bodies.        *)
(***************************************************************************)
ValidBodies(ids) == {sub \in Subscriptions(ids) : Valid(sub)}

NextDeleted ==
    \/ CreateOf(ValidBodies({0}), TRUE)
    \/ ReadOf(Identifiers, TRUE)
    \/ UpdateOf(ValidBodies(IDs), TRUE)
    \/ PatchOf(PatchBodies, TRUE)
    \/ DeleteOf(Identifiers, TRUE)
    \/ Respond
    \/ Expire

SpecDeleted == Init /\ [][NextDeleted]_vars

\* the request being answered is a Read of the deleted row d by its id
ReadsById(d) == last.op = "Read" /\ last.identifier.id = d.id

\* the request being answered is a Read of the deleted row d by its natural key
ReadsByNaturalKey(d) ==
    last.op = "Read" /\ last.identifier.id <= 0 /\ SameKey(last.identifier, d)

\* C9 as claimed: after a successful Delete every Read of the row, by its
\* id or by its natural key, returns NotFound until a Create of that
\* natural key succeeds
DeletedStaysNotFound ==
    \A d \in deleted :
      ((ReadsById(d) \/ ReadsByNaturalKey(d)) /\ d.reuse # "create")
      => last.err = ErrNotFound

\* C9, amended: after a successful Delete every Read by the row's id returns
\* NotFound, and every Read by its natural key returns NotFound until a
\* Create of that natural key, or an Update or Patch that gives a row that
\* natural key, succeeds
DeletedStaysNotFoundUntilReused ==
    \A d \in deleted :
      /\ ReadsById(d) => last.err = ErrNotFound
      /\ (ReadsByNaturalKey(d) /\ d.reuse = "none") => last.err = ErrNotFound

\* C9, reached: with a row left in the table, a Read by the natural key of
\* a row deleted by its natural key returned NotFound
DeletedStaysNotFoundWitness ==
    /\ last.err = ErrNotFound
    /\ store # {}
    /\ subID(1) \in DOMAIN cache
    /\ last.identifier.id = 0
    /\ \E d \in deleted : ReadsByNaturalKey(d) /\ d.reuse = "none" /\ d.id = 1

(***************************************************************************)
(* Partial updates, the clock running between the requests.                *)
(***************************************************************************)
\* time passes between two requests
Tick ==
    /\ last.op = "none"
    /\ now < MaxTime
    /\ now' = now + 1
    /\ UNCHANGED <<store, nextId, cache, last, created, deleted, procs, redisUp, service,
                   wire, process>>

NextPatch ==
    \/ CreateOf(ValidBodies({0}), FALSE)
    \/ PatchOf(PatchBodies, FALSE)
    \/ Tick
    \/ Respond

SpecPatch == Init /\ [][NextPatch]_vars

\* C14: a successful Patch of row k leaves every field absent from its
\* payload, the id and created_at of row k, and every other row as they
\* were, and gives row k the values its payload carries
PatchFrame ==
    [][(Handled("Patch") /\ last'.err = ErrNil)
       => /\ {r.id : r \in store'} = {r.id : r \in store}
          /\ \A r \in store :
               IF r.id # last'.patch.id
               THEN r \in store'
               ELSE \E q \in store' :
                      /\ q.id = r.id
                      /\ q.created_at = r.created_at
                      /\ \A f \in PatchFields :
                           /\ ~last'.patch[f].present => q[f] = r[f]
                           /\ ~BindPatch(last'.patch)[f].nil
                              => q[f] = BindPatch(last'.patch)[f].v]_vars

\* C14, reached: a Patch carrying only a service_name wrote a row that has
\* an end_date and was created at an earlier time, another row being there
PatchFrameWitness ==
    /\ last.op = "Patch"
    /\ last.err = ErrNil
    /\ last.patch.service_name.present
    /\ Cardinality(store) = 2
    /\ \E q \in store :
         /\ q.id = last.patch.id
         /\ q.service_name = last.patch.service_name.json
         /\ q.end_date.Valid
         /\ q.updated_at.Time > q.created_at.Time
         /\ \A o \in store : o.id # q.id => o.service_name = "" \/ o.service_name # q.service_name

\* C15 as claimed: a successful Patch whose payload carries "end_date": null
\* unsets the end_date of the row, and one that carries no end_date leaves it
PatchNullUnsetsEndDate ==
    [][(Handled("Patch") /\ last'.err = ErrNil)
       => \A r \in store :
            r.id = last'.patch.id
            => \E q \in store' :
                 /\ q.id = r.id
                 /\ ~last'.patch.end_date.present => q.end_date = r.end_date
                 /\ (last'.patch.end_date.present /\ last'.patch.end_date.json = JsonNull)
                    => q.end_date = NullDate]_vars

(***************************************************************************)
(* Validation: requests that carry an end_date earlier than every          *)
(* start_date, besides those of the other specifications.                  *)
(***************************************************************************)
\* the month before the first month of Months
EarlyMonth == MonthOf(2025, 6)

ValidateBodies(ids) ==
    Subscriptions(ids)
    \cup {[sub EXCEPT !.end_date = DateOf(EarlyMonth)] : sub \in Subscriptions(ids)}

ValidatePatchBodies ==
    PatchBodies
    \cup {[ZeroPatchBody EXCEPT !.id = id,
                                !.end_date = Present(JsonString(FormatMonthYear(EarlyMonth)))]
          : id \in IDs}

NextValidate ==
    \/ CreateOf(ValidateBodies({0}), FALSE)
    \/ UpdateOf(ValidateBodies(1..MaxId), FALSE)
    \/ PatchOf(ValidatePatchBodies, FALSE)
    \/ DeleteOf(Identifiers, FALSE)
    \/ Respond

SpecValidate == Init /\ [][NextValidate]_vars

\* a patch payload merged with the stored row r: a field the payload carries
\* takes the payload's value, null unsetting a date; any other field keeps
\* the value of r
PayloadMerge(body, r) ==
    Subscription(body.id,
        IF body.service_name.present THEN body.service_name.json ELSE r.service_name,
        IF body.price.present THEN body.price.json ELSE r.price,
        IF body.user_uuid.present THEN body.user_uuid.json ELSE r.user_uuid,
        IF body.start_date.present
        THEN CustomDateUnmarshalJSON(body.start_date.json).date ELSE r.start_date,
        IF body.end_date.present
        THEN CustomDateUnmarshalJSON(body.end_date.json).date ELSE r.end_date)

\* the request just handled was refused as invalid after at most n reads of
\* the table, table and cache being left as they were
Rejected(n) ==
    /\ last'.err = ErrBadRequest
    /\ last'.dbCalls <= n
    /\ store' = store
    /\ nextId' = nextId
    /\ cache' = cache

\* C16 as claimed (Patch being allowed the read of the row it merges with):
\* a Create, Update or Patch of a subscription that is not valid returns
\* BadRequest, writes nothing to the table and leaves the cache as it was
InvalidIsBadRequest ==
    [][/\ ((Handled("Create") \/ Handled("Update")) /\ ~Valid(last'.arg))
          => Rejected(0)
       /\ Handled("Patch")
          => \A r \in store :
               (r.id = last'.patch.id /\ ~Valid(PayloadMerge(last'.patch, r)))
               => Rejected(1)]_vars

\* C17: every row of the table has a price > 0, a user_uuid, a service name,
\* a start_date, and an end_date that is absent or not before the start_date
StoreRowsValid ==
    \A r \in store :
      /\ r.price > 0
      /\ r.user_uuid # NilUUID
      /\ r.service_name # ""
      /\ r.start_date.Valid
      /\ (~r.end_date.Valid \/ r.end_date.Time >= r.start_date.Time)

\* C17, reached: an Update that would have given a row of the table an
\* end_date before its start_date was refused, the row keeping its end_date
StoreRowsValidWitness ==
    /\ last.op = "Update"
    /\ last.err = ErrBadRequest
    /\ last.arg.end_date = DateOf(EarlyMonth)
    /\ last.arg.start_date.Valid
    /\ last.arg.price > 0
    /\ last.arg.service_name # ""
    /\ last.arg.user_uuid # NilUUID
    /\ \E r \in store : r.id = last.arg.id /\ r.end_date.Valid

(***************************************************************************)
(* Cache failures: Redis may be down when the Service is constructed, and  *)
(* may go down and come back between the requests.                         *)
(***************************************************************************)
InitCacheFailure ==
    /\ store = {}
    /\ nextId = 1
    /\ cache = EmptyCache
    /\ last = NoRequest
    /\ created = NoneCreated
    /\ deleted = {}
    /\ procs = [p \in Procs |-> IdleProc]
    /\ now = 1
    /\ redisUp \in BOOLEAN
    /\ service = NewService(redisUp)
    /\ wire = NoWire
    /\ process = Serving

\* Redis stops answering
RedisFail ==
    /\ last.op = "none"
    /\ redisUp
    /\ redisUp' = FALSE
    /\ UNCHANGED <<store, nextId, cache, last, created, deleted, procs, now, service,
                   wire, process>>

\* Redis answers again
RedisRecover ==
    /\ last.op = "none"
    /\ ~redisUp
    /\ redisUp' = TRUE
    /\ UNCHANGED <<store, nextId, cache, last, created, deleted, procs, now, service,
                   wire, process>>

NextCacheFailure ==
    \/ CreateOf(ValidBodies({0}), FALSE)
    \/ ReadOf({i \in Identifiers : i.id >= 0}, FALSE)
    \/ UpdateOf(ValidBodies(1..MaxId), FALSE)
    \/ PatchOf(PatchBodies, FALSE)
    \/ DeleteOf({i \in Identifiers : i.id >= 0}, FALSE)
    \/ Respond
    \/ RedisFail
    \/ RedisRecover

SpecCacheFailure == InitCacheFailure /\ [][NextCacheFailure]_vars

\* the request just handled is a Patch that ended as the calls it makes to
\* the storage engine end: the read of its row, then the update of the merge
PatchAsStorage ==
    \E e \in DatabaseRead(store, IdOnly(last'.patch.id)) :
      IF e.err # ErrNil
      THEN last'.err = e.err /\ store' = store
      ELSE IF ~Valid(PatchMerge(BindPatch(last'.patch), e.sub))
      THEN last'.err = ErrBadRequest /\ store' = store
      ELSE \E d \in DatabaseUpdate(store, PatchMerge(BindPatch(last'.patch), e.sub)) :
             last'.err = d.err /\ store' = d.store

\* the request just handled ended as the storage engine's operation on the
\* same input ends
AsStorage ==
    /\ (Handled("Create") /\ Valid(last'.arg))
       => \E d \in DatabaseCreate(store, nextId, last'.arg) :
            last'.err = d.err /\ last'.id = d.id /\ store' = d.store
    /\ (Handled("Read") /\ ~NotEnoughArguments(last'.identifier))
       => \E d \in DatabaseRead(store, last'.identifier) :
            last'.err = d.err /\ last'.sub = d.sub
    /\ (Handled("Update") /\ Valid(last'.arg))
       => \E d \in DatabaseUpdate(store, last'.arg) :
            last'.err = d.err /\ store' = d.store
    /\ Handled("Patch") => PatchAsStorage
    /\ (Handled("Delete") /\ ~NotEnoughArguments(last'.identifier))
       => \E d \in DatabaseDelete(store, last'.identifier) :
            last'.err = d.err /\ store' = d.store

\* C18 as claimed: with Redis down during the request, or having been down
\* when the Service was constructed, Create, Read, Update, Patch and Delete
\* return what the storage engine returns for them
CacheFailureTransparent ==
    [][(~redisUp \/ service = NilService) => AsStorage]_vars

(***************************************************************************)
(* Summary over the tables the Service can have built: rows of four        *)
(* months across a year's end, at two prices.                              *)
(***************************************************************************)
SummaryMonths == {MonthOf(2025, 11), MonthOf(2025, 12), MonthOf(2026, 1), MonthOf(2026, 2)}
SummaryPrices == {1, 400}

\* the start_date and end_date of a valid row
SummaryPeriods ==
    {d \in [start : {DateOf(m) : m \in SummaryMonths},
            end : {NullDate} \cup {DateOf(m) : m \in SummaryMonths}]
       : ~d.end.Valid \/ d.end.Time >= d.start.Time}

\* the rows a valid Create leaves under id
SummaryRows(id, names) ==
    {[Subscription(id, n, p, u, d.start, d.end)
      EXCEPT !.created_at = TimeOf(1), !.updated_at = TimeOf(1)]
     : n \in names, p \in SummaryPrices, u \in UserUUIDs, d \in SummaryPeriods}

\* tables of at most two rows, their natural keys distinct
SummaryTables ==
    {{}} \cup {{r} : r \in SummaryRows(1, ServiceNames)}
         \cup {{r1, r2} : r1 \in SummaryRows(1, {"Yandex Plus"}),
                          r2 \in SummaryRows(2, {"Netflix"})}

SummaryQueries ==
    {SummaryQuery(u, n, s, e)
     : u \in UUIDs, n \in {"", "Netflix"},
       s \in {QueryAbsent} \cup {QueryMonth(m) : m \in SummaryMonths},
       e \in {QueryAbsent} \cup {QueryMonth(m) : m \in SummaryMonths}}
    \cup {SummaryQuery(NilUUID, "", QueryMalformed, QueryAbsent),
          SummaryQuery(NilUUID, "", QueryAbsent, QueryMalformed)}

InitSummary ==
    /\ store \in SummaryTables
    /\ nextId = Cardinality(store) + 1
    /\ cache = EmptyCache
    /\ last = NoRequest
    /\ created = NoneCreated
    /\ deleted = {}
    /\ procs = [p \in Procs |-> IdleProc]
    /\ now = 1
    /\ redisUp = TRUE
    /\ service = NewService(redisUp)
    /\ wire = NoWire
    /\ process = Serving

\* a summary request handled from its arrival to its return
SummaryOf(queries) ==
    /\ last.op = "none"
    /\ \E query \in queries :
         LET o == HandlerSummary(store, query)
         IN  last' = [NoRequest EXCEPT !.op = "Summary", !.query = query,
                                       !.err = o.err, !.summary = o.summary,
                                       !.dbCalls = o.dbCalls,
                                       !.status = HandlerStatus("Summary", o.err)]
    /\ UNCHANGED <<store, nextId, cache, created, deleted, procs, env>>

NextSummary == SummaryOf(SummaryQueries) \/ Respond

SpecSummary == InitSummary /\ [][NextSummary]_vars

\* the window of the summary request being answered
Window == [start |-> QueryDate(last.query.start_date),
           end |-> QueryDate(last.query.end_date)]

\* the request being answered is a Summary over a window of both bounds,
\* the start not after the end
SummaryOverWindow ==
    /\ last.op = "Summary"
    /\ last.query.start_date.kind = "month"
    /\ last.query.end_date.kind = "month"
    /\ Window.start.Time <= Window.end.Time

\* the rows that pass the user and service filter and overlap the window
Overlapping ==
    {r \in store :
       /\ (last.query.user_uuid = NilUUID \/ r.user_uuid = last.query.user_uuid)
       /\ (last.query.service_name = "" \/ r.service_name = last.query.service_name)
       /\ r.start_date.Time <= Window.end.Time
       /\ (~r.end_date.Valid \/ r.end_date.Time >= Window.start.Time)}

\* the months of row r inside the window, both ends counted
OverlapMonths(r) ==
    {m \in Window.start.Time .. Window.end.Time :
       /\ m >= r.start_date.Time
       /\ (~r.end_date.Valid \/ m <= r.end_date.Time)}

\* the sum over the rows of their price times their months inside the window
RECURSIVE OverlapTotal(_)
OverlapTotal(rows) ==
    IF rows = {} THEN 0
    ELSE LET r == CHOOSE r \in rows : TRUE
         IN  r.price * Cardinality(OverlapMonths(r)) + OverlapTotal(rows \ {r})

\* the result a Summary over the window is to return: the months of the
\* window, the number of overlapping rows and the sum of their price times
\* their months in the window
WindowSummary ==
    [amount |-> Cardinality(Overlapping),
     months |-> Cardinality(Window.start.Time .. Window.end.Time),
     total |-> OverlapTotal(Overlapping)]

\* C19: over a window with start <= end, the result Summary returns is the
\* months of the window, the number of rows that pass the filter and overlap
\* the window, and the sum of their price times their months in the window;
\* it returns a result whenever a row overlaps the window
SummaryNumbers ==
    SummaryOverWindow
    => /\ last.err = ErrNil => last.summary = WindowSummary
       /\ Overlapping # {} => last.err = ErrNil

\* a Summary over a window of two months inside the four of a row at price
\* 400 returned amount 1, months 2 and total 800
SummaryNumbersWitness ==
    /\ SummaryOverWindow
    /\ last.err = ErrNil
    /\ \E r \in store :
         /\ Overlapping = {r}
         /\ r.price = 400
         /\ r.end_date.Valid
         /\ r.start_date.Time < Window.start.Time
         /\ r.end_date.Time > Window.end.Time
    /\ last.summary = [amount |-> 1, months |-> 2, total |-> 800]

\* C20 as claimed: a Summary without its start_date or without its end_date
\* is refused with BadRequest before any query of the storage engine
SummaryRequiresBothBounds ==
    (/\ last.op = "Summary"
     /\ (last.query.start_date.kind = "absent" \/ last.query.end_date.kind = "absent"))
    => (last.err = ErrBadRequest /\ last.dbCalls = 0)

\* C30 as claimed: a Summary over a window of both bounds, the start not
\* after the end, succeeds; when no row passes the filter and overlaps the
\* window it returns amount 0, total 0 and the months of the window
SummarySucceedsOnEveryWindow ==
    SummaryOverWindow
    => /\ last.err = ErrNil
       /\ Overlapping = {}
          => last.summary = [amount |-> 0,
                             months |-> Cardinality(Window.start.Time .. Window.end.Time),
                             total |-> 0]

(***************************************************************************)
(* List over the tables the Service can have built: up to three rows of    *)
(* two users, their periods within three months.                           *)
(***************************************************************************)
OtherUUID == "7c9e6679-7425-40de-944b-e07fc1f90ae7"

ListMonths == {MonthOf(2025, 7), MonthOf(2025, 8), MonthOf(2025, 9)}

\* the start_date and end_date of a valid row
ListPeriods ==
    {d \in [start : {DateOf(m) : m \in ListMonths},
            end : {NullDate} \cup {DateOf(m) : m \in ListMonths}]
       : ~d.end.Valid \/ d.end.Time >= d.start.Time}

\* the ids of the rows and the natural key of each
ListIds == 1..3
ListKey(id) ==
    IF id = 1 THEN [user_uuid |-> CHOOSE u \in UserUUIDs : TRUE, service_name |-> "Yandex Plus"]
    ELSE IF id = 2 THEN [user_uuid |-> CHOOSE u \in UserUUIDs : TRUE, service_name |-> "Netflix"]
    ELSE [user_uuid |-> OtherUUID, service_name |-> "Yandex Plus"]

\* the row a valid Create leaves under id, its period d
ListRow(id, d) ==
    [Subscription(id, ListKey(id).service_name, 1, ListKey(id).user_uuid, d.start, d.end)
     EXCEPT !.created_at = TimeOf(1), !.updated_at = TimeOf(1)]

\* the tables left by three Creates and any Deletes
ListTables ==
    UNION {{{ListRow(id, f[id]) : id \in ids} : f \in [ids -> ListPeriods]}
           : ids \in SUBSET ListIds}

ListQueries ==
    {ListQuery(u, n, s, e, l, o)
     : u \in UUIDs, n \in {"", "Yandex Plus"},
       s \in {QueryAbsent, QueryMonth(MonthOf(2025, 8)), QueryMonth(MonthOf(2025, 9))},
       e \in {QueryAbsent, QueryMonth(MonthOf(2025, 7)), QueryMonth(MonthOf(2025, 8))},
       l \in {QueryNoInt, QueryInt(0), QueryInt(1), QueryInt(2)},
       o \in {QueryNoInt, QueryInt(1), QueryInt(2)}}
    \cup {ListQuery(NilUUID, "", QueryAbsent, QueryAbsent, l, o)
          : l \in {QueryNoInt, QueryInt(-1), QueryBadInt},
            o \in {QueryNoInt, QueryInt(-1), QueryBadInt}}
    \cup {ListQuery(NilUUID, "", QueryMalformed, QueryAbsent, QueryNoInt, QueryNoInt),
          ListQuery(NilUUID, "", QueryAbsent, QueryMalformed, QueryNoInt, QueryNoInt)}

InitList ==
    /\ store \in ListTables
    /\ nextId = 4
    /\ cache = EmptyCache
    /\ last = NoRequest
    /\ created = NoneCreated
    /\ deleted = {}
    /\ procs = [p \in Procs |-> IdleProc]
    /\ now = 1
    /\ redisUp = TRUE
    /\ service = NewService(redisUp)
    /\ wire = NoWire
    /\ process = Serving

\* a list request handled from its arrival to its return
ListOf(queries) ==
    /\ last.op = "none"
    /\ \E query \in queries :
         LET o == HandlerList(store, query)
         IN  last' = [NoRequest EXCEPT !.op = "List", !.query = query,
                                       !.err = o.err, !.list = o.list,
                                       !.dbCalls = o.dbCalls,
                                       !.status = HandlerStatus("List", o.err)]
    /\ UNCHANGED <<store, nextId, cache, created, deleted, procs, env>>

NextList == ListOf(ListQueries) \/ Respond

SpecList == InitList /\ [][NextList]_vars

\* the filter, limit and offset of the list request being answered
Filter ==
    [user_uuid |-> last.query.user_uuid,
     service_name |-> last.query.service_name,
     start |-> QueryDate(last.query.start_date),
     end |-> QueryDate(last.query.end_date),
     limit |-> QueryIntOr(last.query.limit, DefaultLimit),
     offset |-> QueryIntOr(last.query.offset, DefaultOffset)]

\* the request being answered is a List whose query parses, whose window,
\* when it has both bounds, does not end before it starts, and whose limit
\* and offset are not negative
ListOverFilter ==
    /\ last.op = "List"
    /\ last.query.start_date.kind # "malformed"
    /\ last.query.end_date.kind # "malformed"
    /\ last.query.limit.kind # "malformed"
    /\ last.query.offset.kind # "malformed"
    /\ (Filter.start.Valid /\ Filter.end.Valid) => Filter.start.Time <= Filter.end.Time
    /\ Filter.limit >= 0
    /\ Filter.offset >= 0

\* the rows that pass the filter
Passing ==
    {r \in store :
       /\ (r.user_uuid = Filter.user_uuid \/ Filter.user_uuid = NilUUID)
       /\ (r.service_name = Filter.service_name \/ Filter.service_name = "")
       /\ (~Filter.end.Valid \/ r.start_date.Time <= Filter.end.Time)
       /\ (\/ ~Filter.start.Valid
           \/ ~r.end_date.Valid
           \/ r.end_date.Time >= Filter.start.Time)}

\* the number of passing rows of a smaller id
Rank(r) == Cardinality({q \in Passing : q.id < r.id})

\* C21: List returns the rows that pass the filter, by ascending id, less
\* the first offset of them and at most limit of them, and an empty result
\* is a success
ListReturnsPage ==
    ListOverFilter
    => /\ last.err = ErrNil
       /\ last.status = StatusOK
       /\ \A i, j \in DOMAIN last.list : i < j => last.list[i].id < last.list[j].id
       /\ {last.list[i] : i \in DOMAIN last.list}
            = {r \in Passing : Rank(r) >= Filter.offset
                               /\ Rank(r) < Filter.offset + Filter.limit}

\* a List with limit 1 and offset 1 over three passing rows returned the
\* second of them
ListReturnsPageWitness ==
    /\ ListOverFilter
    /\ Cardinality(Passing) = 3
    /\ Filter.limit = 1
    /\ Filter.offset = 1
    /\ Len(last.list) = 1
    /\ last.list[1].id = 2

(***************************************************************************)
(* The status of the answers, requests running one at a time.              *)
(***************************************************************************)
\* the Patch just handled would give its row the natural key of another row
PatchWouldCollide ==
    /\ Handled("Patch")
    /\ \E r, q \in store :
         /\ r.id = last'.patch.id
         /\ q.id # r.id
         /\ Valid(PayloadMerge(last'.patch, r))
         /\ SameKey(PayloadMerge(last'.patch, r), q)

\* C22 as claimed: the error the Service returns fixes the status of the
\* answer, 400 for BadRequest, 404 for NotFound, 409 for Conflict and 500
\* for InternalServer, and a Patch that would give its row the natural key
\* of another row is answered 409 and changes no row
ErrorKindFixesStatus ==
    [][/\ (last.op = "none" /\ last'.op # "none")
          => /\ last'.err = ErrBadRequest => last'.status = StatusBadRequest
             /\ last'.err = ErrNotFound => last'.status = StatusNotFound
             /\ last'.err = ErrConflict => last'.status = StatusConflict
             /\ last'.err = ErrInternalServer
                => last'.status = StatusInternalServerError
       /\ PatchWouldCollide
          => (last'.status = StatusConflict /\ store' = store)]_vars

(***************************************************************************)
(* Dates through encoding/json and back: two years of months and the       *)
(* absent date, as start_date and as end_date.                             *)
(***************************************************************************)
WireMonths == {MonthOf(2024, 12) + k : k \in 0..23}
WireDates == {NullDate} \cup {DateOf(m) : m \in WireMonths}

InitWire ==
    /\ store = {}
    /\ nextId = 1
    /\ cache = EmptyCache
    /\ last = NoRequest
    /\ created = NoneCreated
    /\ deleted = {}
    /\ procs = [p \in Procs |-> IdleProc]
    /\ now = 1
    /\ redisUp = TRUE
    /\ service = NewService(redisUp)
    /\ \E mode \in {"date", "subscription"}, s \in WireDates, e \in WireDates :
         wire = Wire("value", mode,
                     Subscription(1, "Netflix", 1, CHOOSE u \in UserUUIDs : TRUE, s, e),
                     NoJson, NoBack)
    /\ process = Serving

\* the value is serialized
Encode ==
    /\ wire.phase = "value"
    /\ wire' = [wire EXCEPT !.phase = "encoded",
                            !.json = WireEncode(wire.mode, wire.sub)]
    /\ UNCHANGED <<store, nextId, cache, last, created, deleted, procs, now,
                   redisUp, service, process>>

\* the data is parsed
Decode ==
    /\ wire.phase = "encoded"
    /\ wire' = [wire EXCEPT !.phase = "decoded",
                            !.back = WireDecode(wire.mode, wire.json)]
    /\ UNCHANGED <<store, nextId, cache, last, created, deleted, procs, now,
                   redisUp, service, process>>

NextWire == Encode \/ Decode

SpecWire == InitWire /\ [][NextWire]_vars

\* C23 as claimed: a date is serialized as "MM-YYYY" and an absent date as
\* null, and parsing what was serialized gives the date again, for a date
\* serialized on its own and for the start_date and end_date of a
\* Subscription serialized as a whole
DateRoundTrip ==
    /\ wire.phase \in {"encoded", "decoded"}
       => /\ wire.json.start_date
              = IF wire.sub.start_date.Valid
                THEN JsonString(FormatMonthYear(wire.sub.start_date.Time))
                ELSE JsonNull
          /\ wire.json.end_date
              = IF wire.sub.end_date.Valid
                THEN JsonString(FormatMonthYear(wire.sub.end_date.Time))
                ELSE JsonNull
    /\ wire.phase = "decoded"
       => /\ wire.back.err = ErrNil
          /\ wire.back.start_date = wire.sub.start_date
          /\ wire.back.end_date = wire.sub.end_date

(***************************************************************************)
(* The ids of the rows, requests running one at a time.                    *)
(***************************************************************************)
\* the ids of the rows of table st
RowIds(st) == {r.id : r \in st}

\* C25: a successful Create adds one row, its id the next value of the
\* store's sequence whatever id the request carried; no two rows of the
\* table have the same id; an Update or a Patch leaves the ids and the
\* number of the rows as they were
IdAssignedByStore ==
    [][/\ (Handled("Create") /\ last'.err = ErrNil)
          => /\ last'.id = nextId
             /\ nextId \notin RowIds(store)
             /\ \E r \in store' : r.id = nextId /\ store' = store \cup {r}
       /\ (Handled("Update") \/ Handled("Patch"))
          => /\ RowIds(store') = RowIds(store)
             /\ Cardinality(store') = Cardinality(store)
       /\ \A r, q \in store' : r.id = q.id => r = q]_vars

\* C25, reached: a Create whose body carried the id of the row already
\* there added a row under the next id
IdAssignedByStoreWitness ==
    /\ last.op = "Create"
    /\ last.err = ErrNil
    /\ last.arg.id = 1
    /\ last.id = 2
    /\ RowIds(store) = {1, 2}

(***************************************************************************)
(* The cache as seen through Read, requests running one at a time.         *)
(***************************************************************************)
\* the result of a read, its timestamps left out
ReadResult(err, sub) == [err |-> err, id |-> sub.id, fields |-> Fields(sub)]

\* C26: whatever Create, Update, Patch and Delete calls came before, a Read
\* by id or by natural key returns what the storage engine's Read of that
\* identifier returns at that moment, timestamps left out
ReadAsStorage ==
    [][(Handled("Read") /\ Resolvable(last'.identifier))
       => ReadResult(last'.err, last'.sub)
            \in {ReadResult(d.err, d.sub) : d \in DatabaseRead(store, last'.identifier)}]_vars

\* C26, reached: a Read by id was answered Not Found, as the storage engine
\* would, while the cache held an entry under the key of that id
ReadAsStorageWitness ==
    /\ last.op = "Read"
    /\ last.identifier.id > 0
    /\ subID(last.identifier.id) \in DOMAIN cache
    /\ \A r \in store : r.id # last.identifier.id
    /\ last.err = ErrNotFound

(***************************************************************************)
(* Full updates, the clock running between the requests.                   *)
(***************************************************************************)
NextUpdate ==
    \/ CreateOf(ValidBodies({0}), FALSE)
    \/ UpdateOf(Subscriptions(1..MaxId), FALSE)
    \/ Tick
    \/ Respond

SpecUpdate == Init /\ [][NextUpdate]_vars

\* the Update just handled is a valid one of a row of the table
UpdatesRow ==
    /\ Handled("Update")
    /\ Valid(last'.arg)
    /\ \E r \in store : r.id = last'.arg.id

\* C29: a valid Update of a row of the table is a Conflict exactly when
\* another row has the target natural key, and then the table is left as
\* it was; otherwise it succeeds, the row gets the five fields of the
\* request and keeps its created_at, and every other row is left as it was
UpdateFrame ==
    [][UpdatesRow
       => IF \E q \in store : q.id # last'.arg.id /\ SameKey(q, last'.arg)
          THEN last'.err = ErrConflict /\ store' = store
          ELSE /\ last'.err = ErrNil
               /\ Cardinality(store') = Cardinality(store)
               /\ \A r \in store :
                    IF r.id # last'.arg.id
                    THEN r \in store'
                    ELSE \E q \in store' :
                           /\ q.id = r.id
                           /\ Fields(q) = Fields(last'.arg)
                           /\ q.created_at = r.created_at]_vars

\* C29, reached: an Update that kept the natural key of its row and changed
\* its end_date succeeded at a later time than the row was created, another
\* row being there
UpdateFrameWitness ==
    /\ last.op = "Update"
    /\ last.err = ErrNil
    /\ Cardinality(store) = 2
    /\ \E q \in store :
         /\ q.id = last.arg.id
         /\ Fields(q) = Fields(last.arg)
         /\ q.end_date.Valid
         /\ q.updated_at.Time > q.created_at.Time

(***************************************************************************)
(* Shutdown: the process from its serving to its exit, requests arriving   *)
(* at the engine that gin runs and taking their steps meanwhile.           *)
(***************************************************************************)
\* context.WithTimeout(context.Background(), 30*time.Second), in ticks
GracePeriod == 3

\* a request arrives at the engine started by server.Run, which listens
\* until the process exits
Arrive(p) ==
    /\ process.phase # "exited"
    /\ process.work[p] = 0
    /\ \E n \in 1..MaxWork : process' = [process EXCEPT !.work[p] = n]
    /\ UNCHANGED <<store, nextId, cache, last, created, deleted, procs, now,
                   redisUp, service, wire>>

\* a request in flight takes a step; with its last step it is answered
Progress(p) ==
    /\ process.phase # "exited"
    /\ process.work[p] > 0
    /\ process' = [process EXCEPT !.work[p] = @ - 1]
    /\ UNCHANGED <<store, nextId, cache, last, created, deleted, procs, now,
                   redisUp, service, wire>>

\* gracefulShutdown: SIGINT or SIGTERM is received from quit
Signal ==
    /\ process.phase = "serving"
    /\ process' = [process EXCEPT !.phase = "signalled"]
    /\ UNCHANGED <<store, nextId, cache, last, created, deleted, procs, now,
                   redisUp, service, wire>>

\* time passes after the signal
Elapse ==
    /\ process.phase \in {"signalled", "shutdown", "closed"}
    /\ process.elapsed < GracePeriod
    /\ process' = [process EXCEPT !.elapsed = @ + 1]
    /\ UNCHANGED <<store, nextId, cache, last, created, deleted, procs, now,
                   redisUp, service, wire>>

\* gracefulShutdown: server.Shutdown(ctx) on the http.Server that main made
\* for this call; it never listened, so it has no connection to wait for
\* and returns at once, and the engine goes on serving
ServerShutdown ==
    /\ process.phase = "signalled"
    /\ process' = [process EXCEPT !.phase = "shutdown"]
    /\ UNCHANGED <<store, nextId, cache, last, created, deleted, procs, now,
                   redisUp, service, wire>>

\* gracefulShutdown: db.Close()
DatabaseClose ==
    /\ process.phase = "shutdown"
    /\ process' = [process EXCEPT !.phase = "closed", !.db = "closed"]
    /\ UNCHANGED <<store, nextId, cache, last, created, deleted, procs, now,
                   redisUp, service, wire>>

\* gracefulShutdown and main return: the process exits, the requests in
\* flight are cut, and the cache connection, never closed, goes with it
Exit ==
    /\ process.phase = "closed"
    /\ process' = [process EXCEPT
                     !.phase = "exited",
                     !.cut = Cardinality({p \in Procs : process.work[p] > 0}),
                     !.work = [p \in Procs |-> 0]]
    /\ UNCHANGED <<store, nextId, cache, last, created, deleted, procs, now,
                   redisUp, service, wire>>

NextShutdown ==
    \/ \E p \in Procs : Arrive(p) \/ Progress(p)
    \/ Signal
    \/ Elapse
    \/ ServerShutdown
    \/ DatabaseClose
    \/ Exit

SpecShutdown == Init /\ [][NextShutdown]_vars

\* C24 as claimed: the connections are closed only after the requests in
\* flight at the serving engine were answered or the grace period has
\* passed, and the process exits with both the store connection and the
\* cache connection closed
ShutdownDrainsThenCloses ==
    [][/\ (process.db = "open" /\ process'.db = "closed")
          => \/ \A p \in Procs : process.work[p] = 0
             \/ process.elapsed >= GracePeriod
       /\ process'.phase = "exited"
          => (process'.db = "closed" /\ process'.cache = "closed")]_vars

(***************************************************************************)
(* The invalidation step of Update and Patch.  The requests are handled    *)
(* while the process serves and while it shuts down: the engine goes on    *)
(* serving after db.Close(), and every storage-engine call then fails.     *)
(***************************************************************************)
NextInvalidate ==
    \/ CreateOf(ValidBodies({0}), FALSE)
    \/ UpdateOf(Subscriptions(0..MaxId), FALSE)
    \/ PatchOf(PatchBodies, FALSE)
    \/ Respond
    \/ Signal
    \/ ServerShutdown
    \/ DatabaseClose

SpecInvalidate == Init /\ [][NextInvalidate]_vars

\* the id the Update or Patch just handled is aimed at
TargetId == IF last'.op = "Update" THEN last'.arg.id ELSE last'.patch.id

\* the Update or Patch just handled called Database.Update: the one
\* storage-engine call of an Update, the second of a Patch
CalledUpdate ==
    \/ (last'.op = "Update" /\ last'.dbCalls = 1)
    \/ (last'.op = "Patch" /\ last'.dbCalls = 2)

\* C31: an Update or Patch that called Database.Update leaves the cache
\* without the entry under the id key of its target and otherwise as it
\* was, whether that call succeeded, returned Conflict or failed; one that
\* returned before the call (validation failed, or Patch did not read its
\* row) made no storage-engine write and leaves the cache as it was
UpdateInvalidatesIdKey ==
    [][(Handled("Update") \/ Handled("Patch"))
       => IF CalledUpdate
          THEN /\ last'.err \in {ErrNil, ErrConflict, ErrInternalServer}
               /\ cache' = RedisDel(cache, subID(TargetId))
          ELSE /\ last'.err \in {ErrBadRequest, ErrNotFound, ErrInternalServer}
               /\ store' = store
               /\ cache' = cache]_vars

\* C31, reached: an Update whose Database.Update failed on the closed
\* database has returned, the cache holds no entry under the id key of its
\* target, a row of the table, and still holds the entry of another row
UpdateInvalidatesIdKeyWitness ==
    /\ last.op = "Update"
    /\ last.err = ErrInternalServer
    /\ last.dbCalls = 1
    /\ \E r \in store : r.id = last.arg.id
    /\ subID(last.arg.id) \notin DOMAIN cache
    /\ \E k \in DOMAIN cache : k.kind = "id" /\ k.id # last.arg.id

(***************************************************************************)
(* Concurrent requests: every storage-engine statement and every cache     *)
(* command of a request is a step of its own.                              *)
(***************************************************************************)
\* the bodies of the concurrent requests
ConcurrentBodies(ids) == {sub \in ValidBodies(ids) : ~sub.end_date.Valid}
ConcurrentPatchBodies == {b \in PatchBodies : b.id > 0}

SetProc(p, pc, sub, probe, err) ==
    procs' = [procs EXCEPT ![p] = [pc |-> pc, sub |-> sub, probe |-> probe, err |-> err]]

\* Service.Create to the probe of Database.Create, the body one of subs
CreateProbeOf(p, subs) ==
    /\ procs[p].pc = "idle"
    /\ \E sub \in subs :
         /\ Valid(sub)
         /\ \E r \in DatabaseRead(store, NaturalKey(sub)) :
              SetProc(p, "create_insert", sub, r, ErrNil)
    /\ UNCHANGED <<store, nextId, cache, last, created, deleted, env>>

CreateProbe(p) == CreateProbeOf(p, ConcurrentBodies({0}))

\* Database.Create from its probe's result to its return
CreateInsert(p) ==
    /\ procs[p].pc = "create_insert"
    /\ LET d == DatabaseCreateAfter(store, nextId, procs[p].sub, procs[p].probe)
       IN  /\ d.nextId <= MaxId + 1
           /\ store' = d.store
           /\ nextId' = d.nextId
           /\ SetProc(p, "create_cache", [procs[p].sub EXCEPT !.id = d.id],
                      NoProbe, d.err)
    /\ UNCHANGED <<cache, last, created, deleted, env>>

\* Service.Create, the cache fill, to its return
CreateCache(p) ==
    /\ procs[p].pc = "create_cache"
    /\ cache' = CacheSetSubscription(cache, procs[p].sub)
    /\ SetProc(p, "idle", ZeroSubscription, NoProbe, ErrNil)
    /\ UNCHANGED <<store, nextId, last, created, deleted, env>>

\* Service.Update to the call of Database.Update, the body one of subs
UpdateStartOf(p, subs) ==
    /\ procs[p].pc = "idle"
    /\ \E sub \in subs :
         /\ Valid(sub)
         /\ SetProc(p, "update_probe", sub, NoProbe, ErrNil)
    /\ UNCHANGED <<store, nextId, cache, last, created, deleted, env>>

UpdateStart(p) == UpdateStartOf(p, ConcurrentBodies(1..MaxId))

\* Service.Patch to the call of Database.Update: the read of the row, the
\* merge and the validation, the payload one of bodies
PatchReadOf(p, bodies) ==
    /\ procs[p].pc = "idle"
    /\ \E body \in bodies :
         \E e \in DatabaseRead(store, IdOnly(body.id)) :
           /\ e.err = ErrNil
           /\ Valid(PatchMerge(BindPatch(body), e.sub))
           /\ SetProc(p, "update_probe", PatchMerge(BindPatch(body), e.sub),
                      NoProbe, ErrNil)
    /\ UNCHANGED <<store, nextId, cache, last, created, deleted, env>>

PatchRead(p) == PatchReadOf(p, ConcurrentPatchBodies)

\* Database.Update, its probe
UpdateProbe(p) ==
    /\ procs[p].pc = "update_probe"
    /\ \E r \in DatabaseRead(store, NaturalKey(procs[p].sub)) :
         SetProc(p, "update_write", procs[p].sub, r, ErrNil)
    /\ UNCHANGED <<store, nextId, cache, last, created, deleted, env>>

\* Database.Update from its probe's result to its return
UpdateWrite(p) ==
    /\ procs[p].pc = "update_write"
    /\ LET d == DatabaseUpdateAfter(store, procs[p].sub, procs[p].probe)
       IN  /\ store' = d.store
           /\ SetProc(p, "update_cache", procs[p].sub, NoProbe, d.err)
    /\ UNCHANGED <<nextId, cache, last, created, deleted, env>>

\* Service.Update and Service.Patch, the invalidation, to their return
UpdateCache(p) ==
    /\ procs[p].pc = "update_cache"
    /\ cache' = CacheDeleteSubscription(cache, IdOnly(procs[p].sub.id))
    /\ SetProc(p, "idle", ZeroSubscription, NoProbe, ErrNil)
    /\ UNCHANGED <<store, nextId, last, created, deleted, env>>

NextConcurrent ==
    \E p \in Procs :
      \/ CreateProbe(p)
      \/ CreateInsert(p)
      \/ CreateCache(p)
      \/ UpdateStart(p)
      \/ PatchRead(p)
      \/ UpdateProbe(p)
      \/ UpdateWrite(p)
      \/ UpdateCache(p)

SpecConcurrent == Init /\ [][NextConcurrent]_vars

\* C2 as claimed: under any interleaving of concurrent Create, Update and
\* Patch requests, every row of the table is the only one with its
\* (user_uuid, service_name)
NaturalKeyUniqueConcurrent ==
    \A r \in store : Cardinality({q \in store : SameKey(q, r)}) = 1


(***************************************************************************)
(* A Create racing with mutations of the row it inserts: the Create        *)
(* carries no end_date, every Update and Patch sets one.                   *)
(***************************************************************************)
OneUser == CHOOSE u \in UserUUIDs : TRUE
OneMonth == CHOOSE m \in Months : TRUE

StaleCreateBodies ==
    {Subscription(0, "Yandex Plus", 1, OneUser, DateOf(OneMonth), NullDate)}

StaleUpdateBodies ==
    {Subscription(id, "Yandex Plus", 1, OneUser, DateOf(OneMonth), DateOf(OneMonth))
     : id \in 1..MaxId}

StalePatchBodies ==
    {[ZeroPatchBody EXCEPT !.id = id,
                           !.end_date = Present(JsonString(FormatMonthYear(OneMonth)))]
     : id \in 1..MaxId}

NextStale ==
    \E p \in Procs :
      \/ CreateProbeOf(p, StaleCreateBodies)
      \/ CreateInsert(p)
      \/ CreateCache(p)
      \/ UpdateStartOf(p, StaleUpdateBodies)
      \/ PatchReadOf(p, StalePatchBodies)
      \/ UpdateProbe(p)
      \/ UpdateWrite(p)
      \/ UpdateCache(p)

SpecStale == Init /\ [][NextStale]_vars

\* every Update and Patch that wrote row r has returned: r has the end_date
\* only they set, and none of them is still before its invalidation
MutationReturned(r) ==
    /\ r.end_date.Valid
    /\ \A p \in Procs : ~(procs[p].pc = "update_cache" /\ procs[p].sub.id = r.id)

\* C27 as claimed: once an Update or Patch of a row has returned, the cache
\* does not hold under the id key of the row a value from before it, here
\* one without the end_date
NoStaleEntryAfterMutation ==
    \A r \in store :
      (MutationReturned(r) /\ subID(r.id) \in DOMAIN cache)
      => cache[subID(r.id)].end_date.Valid

(***************************************************************************)
(* Two Patches racing on one row: one sets its service_name, the other     *)
(* its end_date, and no payload carries a value the row had at first.      *)
(***************************************************************************)
LostUpdateRow ==
    [Subscription(1, "Yandex Plus", 1, OneUser, DateOf(OneMonth), NullDate)
     EXCEPT !.created_at = TimeOf(1), !.updated_at = TimeOf(1)]

LostUpdateBodies ==
    {[ZeroPatchBody EXCEPT !.id = 1, !.service_name = Present("Netflix")],
     [ZeroPatchBody EXCEPT !.id = 1,
                           !.end_date = Present(JsonString(FormatMonthYear(OneMonth)))]}

InitLostUpdate ==
    /\ store = {LostUpdateRow}
    /\ nextId = 2
    /\ cache = EmptyCache
    /\ last = NoRequest
    /\ created = NoneCreated
    /\ deleted = {}
    /\ procs = [p \in Procs |-> IdleProc]
    /\ now \in 1..MaxTime
    /\ redisUp = TRUE
    /\ service = NewService(redisUp)
    /\ wire = NoWire
    /\ process = Serving

NextLostUpdate ==
    \E p \in Procs :
      \/ PatchReadOf(p, LostUpdateBodies)
      \/ UpdateProbe(p)
      \/ UpdateWrite(p)
      \/ UpdateCache(p)

SpecLostUpdate == InitLostUpdate /\ [][NextLostUpdate]_vars

\* C28 as claimed: a Patch changes only the fields of its payload, so the
\* service_name one Patch has set is kept by a Patch that sets the end_date,
\* and the end_date one has set is kept by a Patch that sets the
\* service_name
PatchLosesNoUpdate ==
    [][\A r \in store : \A q \in store' :
         r.id = q.id
         => /\ r.service_name = "Netflix" => q.service_name = "Netflix"
            /\ r.end_date.Valid => q.end_date.Valid]_vars

=============================================================================
